---- MODULE Spec2Model ----
(***************************************************************************)
(* State-machine model of vision/train/train.py: the main routine of the   *)
(* object-detection training script.  One action per straight-line block   *)
(* of main; the external collaborators (S3 helpers, dataset class, engine, *)
(* torch) are calls whose results are drawn from small sets.  The calls of  *)
(* the epoch loop, train_one_epoch and evaluate, may also raise; main has  *)
(* no try/except, so a raised exception ends the run.                      *)
(***************************************************************************)
EXTENDS Integers, Sequences, FiniteSets, TLC

VARIABLES
    FLAGS,                  \* absl flags: s3_bucket_name, network, num_epochs
    label_file,             \* local label file: None (absent) or Some(content)
    manifest_dir,           \* numbers of the manifest files in the local manifest directory
    pc,                     \* position of main
    start_time,             \* int(time.time()) taken at line 80
    use_s3,                 \* remote mode
    s3calls,                \* calls made to the S3 helpers, in order
    labels,                 \* category labels, "background" first
    newest_manifest_file,   \* None or Some(number) of the newest manifest
    datasets,               \* the BojaDataSet objects constructed so far, in order
    indices,                \* torch.randperm(len(dataset)).tolist()
    num_test,               \* int(0.2 * len(dataset))
    dataset,                \* training Subset: its index list
    dataset_test,           \* test Subset: its index list
    epoch,                  \* loop variable of the epoch loop
    lr_steps,               \* number of lr_scheduler.step() calls
    stats,                  \* statistics vector of the latest evaluation
    average_persision,      \* average-precision history
    average_recall,         \* average-recall history
    log,                    \* calls made by the epoch loop, in order
    dirs,                   \* output directories created by this run
    files,                  \* files written by this run
    plotted,                \* the two series handed to plt.plot
    stdout,                 \* messages printed, in order
    exception               \* the exception propagating out of main: None or Some(call)

vars == << FLAGS, label_file, manifest_dir, pc, start_time, use_s3, s3calls,
           labels, newest_manifest_file, datasets, indices, num_test, dataset,
           dataset_test, epoch, lr_steps, stats, average_persision,
           average_recall, log, dirs, files, plotted, stdout, exception >>

----------------------------------------------------------------------------
(* Bounds of the model *)

MaxEpochs == 2          \* largest value of the num_epochs flag
MaxLen == 2             \* largest dataset length in Spec
MaxN == 6               \* largest dataset length in SplitSpec
MaxFileLen == 2         \* largest number of characters in the label file

(* Optional values: Python's None and a present value *)
None == << >>
Some(v) == << v >>

(* Program constants *)
AVERAGE_PRECISION_STAT_INDEX == 0
AVERAGE_RECALL_STAT_INDEX == 8
STEP_SIZE == 3          \* StepLR(step_size=3)
StatsLen == 12          \* length of coco_eval["bbox"].stats

NETWORKS == { "net_a", "net_b" }
BucketNames == { None, Some("bucket") }
NumEpochsValues == { -1 } \cup (0 .. MaxEpochs)
StartTimes == { 1, 2 }
ManifestIds == { 1, 2 }
Chars == { "x", "\n" }
EvalQualities == { 1, 2 }

BACKGROUND == << "background" >>

RECURSIVE SeqsUpTo(_, _)
SeqsUpTo(S, n) ==
    IF n = 0 THEN { << >> }
    ELSE LET shorter == SeqsUpTo(S, n - 1)
         IN  shorter \cup { Append(s, c) : s \in { t \in shorter : Len(t) = n - 1 }, c \in S }

LabelFiles == { None } \cup { Some(content) : content \in SeqsUpTo(Chars, MaxFileLen) }

----------------------------------------------------------------------------
(* Pure helpers *)

Max(S) == CHOOSE m \in S : \A x \in S : x <= m

\* str.splitlines() over the two-character alphabet
RECURSIVE SplitLines(_)
SplitLines(s) ==
    IF s = << >> THEN << >>
    ELSE LET nl == { i \in 1 .. Len(s) : s[i] = "\n" }
         IN  IF nl = { } THEN << s >>
             ELSE LET i == CHOOSE j \in nl : \A k \in nl : j <= k
                  IN  << SubSeq(s, 1, i - 1) >> \o SplitLines(SubSeq(s, i + 1, Len(s)))

\* get_transform(train)
get_transform(train) ==
    IF train THEN << "ToTensor", "RandomHorizontalFlip" >> ELSE << "ToTensor" >>

\* get_newest_manifest_path: the highest-numbered manifest, or None
get_highest_numbered_file(dir) == IF dir = { } THEN None ELSE Some(Max(dir))

get_newest_manifest_path(dir) == get_highest_numbered_file(dir)

\* torch.randperm(n).tolist(): the permutations of 0 .. n-1
Perms(n) ==
    { p \in [1 .. n -> 0 .. (n - 1)] : \A i, j \in 1 .. n : p[i] = p[j] => i = j }

\* Faulty variant of NumTest: rounds 0.2 * n up
NumTestCeil(n) == (n + 4) \div 5

\* int(0.2 * n) for n >= 0: the double 0.2 is just above 1/5 and the product is
\* rounded to nearest, so it is never below n/5 and int() gives floor(n/5)
NumTest(n) == (2 * n) \div 10

\* A Python slice bound, clamped into 0 .. n
SliceBound(i, n) ==
    IF i < 0 THEN (IF i + n < 0 THEN 0 ELSE i + n)
    ELSE IF i > n THEN n ELSE i

\* s[:stop]
SliceTo(s, stop) == SubSeq(s, 1, SliceBound(stop, Len(s)))

\* s[start:]
SliceFrom(s, start) == SubSeq(s, SliceBound(start, Len(s)) + 1, Len(s))

\* "%s-%s" % (str(start_time), network)
RunName(t, net) == [ time |-> t, network |-> net ]

\* os.path.join(dir, "%s.%s" % (run_name, ext))
FilePath(dir, name, ext) == [ dir |-> dir, name |-> name, ext |-> ext ]

\* The weights file and the plot file of the run
ModelStateFilePath(t, net) == FilePath("model_state", RunName(t, net), "pt")
LogFilePath(t, net) == FilePath("logs", RunName(t, net), "jpg")

\* One call of an S3 helper
S3Call(op, prefix, paths) == [ op |-> op, prefix |-> prefix, files |-> paths ]

\* One call made by the epoch loop
LoopCall(op, k, st) == [ op |-> op, epoch |-> k, stats |-> st ]

\* The statistics vector of an evaluation of quality q, indexed from 0
StatsVector(q) == [ i \in 0 .. (StatsLen - 1) |-> StatsLen * q + i ]

NoStats == [ i \in { } |-> 0 ]

----------------------------------------------------------------------------
(* Initial states: the flags and the local file system before main runs *)

Init ==
    /\ FLAGS \in [ s3_bucket_name : BucketNames, network : NETWORKS,
                   num_epochs : NumEpochsValues ]
    /\ label_file \in LabelFiles
    /\ manifest_dir \in SUBSET ManifestIds
    /\ pc = "start"
    /\ start_time = 0
    /\ use_s3 = FALSE
    /\ s3calls = << >>
    /\ labels = << >>
    /\ newest_manifest_file = None
    /\ datasets = << >>
    /\ indices = << >>
    /\ num_test = 0
    /\ dataset = << >>
    /\ dataset_test = << >>
    /\ epoch = -1
    /\ lr_steps = 0
    /\ stats = NoStats
    /\ average_persision = << >>
    /\ average_recall = << >>
    /\ log = << >>
    /\ dirs = { }
    /\ files = { }
    /\ plotted = << >>
    /\ stdout = << >>
    /\ exception = None

----------------------------------------------------------------------------
(* main, lines 80-82: take the start time, derive remote mode from the flag *)

\* Faulty variant of RemoteRequested: remote mode on whatever the flag
RemoteRequestedAlways(bucket) == TRUE

RemoteRequested(bucket) == bucket # None

Start ==
    /\ pc = "start"
    /\ \E t \in StartTimes : start_time' = t
    /\ use_s3' = RemoteRequested(FLAGS.s3_bucket_name)
    /\ pc' = "check_bucket"
    /\ UNCHANGED << FLAGS, label_file, manifest_dir, s3calls, labels,
                    newest_manifest_file, datasets, indices, num_test, dataset,
                    dataset_test, epoch, lr_steps, stats, average_persision,
                    average_recall, log, dirs, files, plotted, stdout, exception >>

(* main, lines 84-95: the bucket existence check; a failed check clears use_s3 *)

\* Faulty variant of UseS3AfterCheck: a failed check leaves remote mode on
UseS3AfterCheckKept(exists) == TRUE

UseS3AfterCheck(exists) == exists

CheckBucket ==
    /\ pc = "check_bucket"
    /\ IF use_s3
       THEN \E exists \in BOOLEAN :
               /\ s3calls' = Append(s3calls, S3Call("bucket_exists", "", << >>))
               /\ use_s3' = UseS3AfterCheck(exists)
               /\ stdout' = Append(stdout, IF exists THEN "bucket_exists"
                                                     ELSE "bucket_missing")
       ELSE UNCHANGED << s3calls, use_s3, stdout >>
    /\ pc' = "download"
    /\ UNCHANGED << FLAGS, label_file, manifest_dir, start_time, labels,
                    newest_manifest_file, datasets, indices, num_test, dataset,
                    dataset_test, epoch, lr_steps, stats, average_persision,
                    average_recall, log, dirs, files, plotted, exception >>

(* main, lines 97-120: the three directory downloads; the manifest download *)
(* may add manifest files to the local manifest directory                   *)

Download ==
    /\ pc = "download"
    /\ IF use_s3
       THEN /\ s3calls' = s3calls \o << S3Call("download", "images", << >>),
                                        S3Call("download", "annotations", << >>),
                                        S3Call("download", "manifests", << >>) >>
            /\ \E new \in SUBSET ManifestIds : manifest_dir' = manifest_dir \cup new
       ELSE UNCHANGED << s3calls, manifest_dir >>
    /\ pc' = "load_labels"
    /\ UNCHANGED << FLAGS, label_file, start_time, use_s3, labels,
                    newest_manifest_file, datasets, indices, num_test, dataset,
                    dataset_test, epoch, lr_steps, stats, average_persision,
                    average_recall, log, dirs, files, plotted, stdout, exception >>

(* main, lines 122-135: read the labels; return when the file is absent or empty *)

\* Faulty variant of NoLabels: the empty label list is not detected
NoLabelsNever(ls) == FALSE

NoLabels(ls) == Len(ls) = 0

LoadLabels ==
    /\ pc = "load_labels"
    /\ IF label_file = None
       THEN /\ stdout' = Append(stdout, "missing_label_file")
            /\ pc' = "returned"
            /\ UNCHANGED labels
       ELSE LET lines == SplitLines(label_file[1])
            IN  IF NoLabels(lines)
                THEN /\ labels' = lines
                     /\ stdout' = Append(stdout, "no_labels")
                     /\ pc' = "returned"
                ELSE /\ labels' = << BACKGROUND >> \o lines
                     /\ pc' = "find_manifest"
                     /\ UNCHANGED stdout
    /\ UNCHANGED << FLAGS, label_file, manifest_dir, start_time, use_s3, s3calls,
                    newest_manifest_file, datasets, indices, num_test, dataset,
                    dataset_test, epoch, lr_steps, stats, average_persision,
                    average_recall, log, dirs, files, plotted, exception >>

(* main, lines 137-145: find the newest manifest; a missing one is only printed *)

\* Faulty variant of FindManifest: returns when no manifest is found
FindManifestReturns ==
    /\ pc = "find_manifest"
    /\ newest_manifest_file' = get_newest_manifest_path(manifest_dir)
    /\ IF newest_manifest_file' = None
       THEN /\ stdout' = Append(stdout, "no_manifest")
            /\ pc' = "returned"
       ELSE /\ UNCHANGED stdout
            /\ pc' = "build_datasets"
    /\ UNCHANGED << FLAGS, label_file, manifest_dir, start_time, use_s3, s3calls,
                    labels, datasets, indices, num_test, dataset,
                    dataset_test, epoch, lr_steps, stats, average_persision,
                    average_recall, log, dirs, files, plotted, exception >>

FindManifest ==
    /\ pc = "find_manifest"
    /\ newest_manifest_file' = get_newest_manifest_path(manifest_dir)
    /\ stdout' = IF newest_manifest_file' = None
                 THEN Append(stdout, "no_manifest") ELSE stdout
    /\ pc' = "build_datasets"
    /\ UNCHANGED << FLAGS, label_file, manifest_dir, start_time, use_s3, s3calls,
                    labels, datasets, indices, num_test, dataset,
                    dataset_test, epoch, lr_steps, stats, average_persision,
                    average_recall, log, dirs, files, plotted, exception >>

(* main, lines 147-169: construct the two dataset objects over the same data *)

BojaDataSet(manifest, transform, lbls, n) ==
    [ manifest |-> manifest, transform |-> transform, labels |-> lbls, len |-> n ]

BuildDatasets(sizes) ==
    /\ pc = "build_datasets"
    /\ \E n \in sizes :
          datasets' = << BojaDataSet(newest_manifest_file, get_transform(TRUE), labels, n),
                         BojaDataSet(newest_manifest_file, get_transform(FALSE), labels, n) >>
    /\ stdout' = Append(stdout, "device")
    /\ pc' = "split"
    /\ UNCHANGED << FLAGS, label_file, manifest_dir, start_time, use_s3, s3calls,
                    labels, newest_manifest_file, indices, num_test, dataset,
                    dataset_test, epoch, lr_steps, stats, average_persision,
                    average_recall, log, dirs, files, plotted, exception >>

(* main, lines 171-183: one random permutation, cut into train and test part *)

Split ==
    /\ pc = "split"
    /\ \E p \in Perms(datasets[1].len) : indices' = p
    /\ num_test' = NumTest(datasets[1].len)
    /\ dataset' = SliceTo(indices', -1 * num_test')
    /\ dataset_test' = SliceFrom(indices', -1 * num_test')
    /\ stdout' = Append(stdout, "sizes")
    /\ pc' = "setup"
    /\ UNCHANGED << FLAGS, label_file, manifest_dir, start_time, use_s3, s3calls,
                    labels, newest_manifest_file, datasets, epoch, lr_steps, stats,
                    average_persision, average_recall, log, dirs, files, plotted,
                    exception >>

(* main, lines 185-215: loaders, model, optimizer, scheduler, empty histories *)

Setup ==
    /\ pc = "setup"
    /\ lr_steps' = 0
    /\ average_persision' = << >>
    /\ average_recall' = << >>
    /\ stdout' = Append(stdout, "training_for")
    /\ pc' = "for_epoch"
    /\ UNCHANGED << FLAGS, label_file, manifest_dir, start_time, use_s3, s3calls,
                    labels, newest_manifest_file, datasets, indices, num_test,
                    dataset, dataset_test, epoch, stats, log, dirs, files, plotted,
                    exception >>

(* main, line 217: for epoch in range(num_epochs) *)

\* Faulty variant of HasNext: one iteration too many
HasNextInclusive(k, n) == k + 1 <= n

HasNext(k, n) == k + 1 < n

ForEpoch ==
    /\ pc = "for_epoch"
    /\ IF HasNext(epoch, FLAGS.num_epochs)
       THEN /\ epoch' = epoch + 1
            /\ pc' = "train"
       ELSE /\ UNCHANGED epoch
            /\ pc' = "save_model"
    /\ UNCHANGED << FLAGS, label_file, manifest_dir, start_time, use_s3, s3calls,
                    labels, newest_manifest_file, datasets, indices, num_test,
                    dataset, dataset_test, lr_steps, stats, average_persision,
                    average_recall, log, dirs, files, plotted, stdout, exception >>

(* main, line 219: one training pass; an exception propagates out of main *)

\* Faulty variant of TrainOneEpoch: the exception is swallowed and the loop goes on
TrainOneEpochCaught ==
    /\ pc = "train"
    /\ log' = Append(log, LoopCall("train", epoch, NoStats))
    /\ \/ UNCHANGED exception
       \/ exception' = Some(LoopCall("train", epoch, NoStats))
    /\ pc' = "lr_step"
    /\ UNCHANGED << FLAGS, label_file, manifest_dir, start_time, use_s3, s3calls,
                    labels, newest_manifest_file, datasets, indices, num_test,
                    dataset, dataset_test, epoch, lr_steps, stats, average_persision,
                    average_recall, dirs, files, plotted, stdout >>

TrainOneEpoch ==
    /\ pc = "train"
    /\ log' = Append(log, LoopCall("train", epoch, NoStats))
    /\ \/ /\ pc' = "lr_step"
          /\ UNCHANGED exception
       \/ /\ pc' = "failed"
          /\ exception' = Some(LoopCall("train", epoch, NoStats))
    /\ UNCHANGED << FLAGS, label_file, manifest_dir, start_time, use_s3, s3calls,
                    labels, newest_manifest_file, datasets, indices, num_test,
                    dataset, dataset_test, epoch, lr_steps, stats, average_persision,
                    average_recall, dirs, files, plotted, stdout >>

(* main, line 221: lr_scheduler.step() *)

\* Faulty variant of LrStep: the schedule is not stepped
LrStepSkipped ==
    /\ pc = "lr_step"
    /\ pc' = "evaluate"
    /\ UNCHANGED << FLAGS, label_file, manifest_dir, start_time, use_s3, s3calls,
                    labels, newest_manifest_file, datasets, indices, num_test,
                    dataset, dataset_test, epoch, lr_steps, stats, average_persision,
                    average_recall, log, dirs, files, plotted, stdout, exception >>

LrStep ==
    /\ pc = "lr_step"
    /\ lr_steps' = lr_steps + 1
    /\ log' = Append(log, LoopCall("lr_step", epoch, NoStats))
    /\ pc' = "evaluate"
    /\ UNCHANGED << FLAGS, label_file, manifest_dir, start_time, use_s3, s3calls,
                    labels, newest_manifest_file, datasets, indices, num_test,
                    dataset, dataset_test, epoch, stats, average_persision,
                    average_recall, dirs, files, plotted, stdout, exception >>

\* StepLR(step_size=3, gamma=0.1): the learning rate is 0.005 * 0.1^LrDecays
LrDecays == lr_steps \div STEP_SIZE

(* main, line 223: one evaluation pass; an exception propagates out of main *)

Evaluate ==
    /\ pc = "evaluate"
    /\ \/ \E q \in EvalQualities :
             /\ stats' = StatsVector(q)
             /\ log' = Append(log, LoopCall("evaluate", epoch, stats'))
             /\ pc' = "append"
             /\ UNCHANGED exception
       \/ /\ log' = Append(log, LoopCall("evaluate", epoch, NoStats))
          /\ pc' = "failed"
          /\ exception' = Some(LoopCall("evaluate", epoch, NoStats))
          /\ UNCHANGED stats
    /\ UNCHANGED << FLAGS, label_file, manifest_dir, start_time, use_s3, s3calls,
                    labels, newest_manifest_file, datasets, indices, num_test,
                    dataset, dataset_test, epoch, lr_steps, average_persision,
                    average_recall, dirs, files, plotted, stdout >>

(* main, lines 225-227: append the two metrics of this epoch's evaluation *)

AppendStats ==
    /\ pc = "append"
    /\ average_persision' = Append(average_persision, stats[AVERAGE_PRECISION_STAT_INDEX])
    /\ average_recall' = Append(average_recall, stats[AVERAGE_RECALL_STAT_INDEX])
    /\ log' = Append(log, LoopCall("append", epoch, NoStats))
    /\ pc' = "for_epoch"
    /\ UNCHANGED << FLAGS, label_file, manifest_dir, start_time, use_s3, s3calls,
                    labels, newest_manifest_file, datasets, indices, num_test,
                    dataset, dataset_test, epoch, lr_steps, stats, dirs, files,
                    plotted, stdout, exception >>

(* main, lines 229-243: create the model-state directory, save the weights *)

SaveModel ==
    /\ pc = "save_model"
    /\ dirs' = dirs \cup { "model_state" }
    /\ files' = files \cup { ModelStateFilePath(start_time, FLAGS.network) }
    /\ stdout' = Append(stdout, "model_saved")
    /\ pc' = "save_plot"
    /\ UNCHANGED << FLAGS, label_file, manifest_dir, start_time, use_s3, s3calls,
                    labels, newest_manifest_file, datasets, indices, num_test,
                    dataset, dataset_test, epoch, lr_steps, stats, average_persision,
                    average_recall, log, plotted, exception >>

(* main, lines 245-258: plot the histories, create the logs directory, save *)

SavePlot ==
    /\ pc = "save_plot"
    /\ plotted' = << average_persision, average_recall >>
    /\ dirs' = dirs \cup { "logs" }
    /\ files' = files \cup { LogFilePath(start_time, FLAGS.network) }
    /\ stdout' = Append(stdout, "log_saved")
    /\ pc' = "publish"
    /\ UNCHANGED << FLAGS, label_file, manifest_dir, start_time, use_s3, s3calls,
                    labels, newest_manifest_file, datasets, indices, num_test,
                    dataset, dataset_test, epoch, lr_steps, stats, average_persision,
                    average_recall, log, exception >>

(* main, lines 260-273: with remote mode on, upload the two artifact files *)

\* Faulty variant of Publish: uploads the weights only, whatever the mode
PublishWeightsOnly ==
    /\ pc = "publish"
    /\ s3calls' = s3calls \o
            << S3Call("upload", "model_state",
                      << ModelStateFilePath(start_time, FLAGS.network) >>) >>
    /\ stdout' = Append(stdout, "training_complete")
    /\ pc' = "done"
    /\ UNCHANGED << FLAGS, label_file, manifest_dir, start_time, use_s3, labels,
                    newest_manifest_file, datasets, indices, num_test, dataset,
                    dataset_test, epoch, lr_steps, stats, average_persision,
                    average_recall, log, dirs, files, plotted, exception >>

Publish ==
    /\ pc = "publish"
    /\ IF use_s3
       THEN s3calls' = s3calls \o
               << S3Call("upload", "model_state",
                         << ModelStateFilePath(start_time, FLAGS.network) >>),
                  S3Call("upload", "logs",
                         << LogFilePath(start_time, FLAGS.network) >>) >>
       ELSE UNCHANGED s3calls
    /\ stdout' = Append(stdout, "training_complete")
    /\ pc' = "done"
    /\ UNCHANGED << FLAGS, label_file, manifest_dir, start_time, use_s3, labels,
                    newest_manifest_file, datasets, indices, num_test, dataset,
                    dataset_test, epoch, lr_steps, stats, average_persision,
                    average_recall, log, dirs, files, plotted, exception >>

----------------------------------------------------------------------------
(* The run of main over every flag setting and file-system state *)

Next ==
    \/ Start
    \/ CheckBucket
    \/ Download
    \/ LoadLabels
    \/ FindManifest
    \/ BuildDatasets(0 .. MaxLen)
    \/ Split
    \/ Setup
    \/ ForEpoch
    \/ TrainOneEpoch
    \/ LrStep
    \/ Evaluate
    \/ AppendStats
    \/ SaveModel
    \/ SavePlot
    \/ Publish

Spec == Init /\ [][Next]_vars

(* The run of main over larger datasets, with the flags and the files fixed *)

SplitInit ==
    /\ Init
    /\ FLAGS = [ s3_bucket_name |-> None, network |-> "net_a", num_epochs |-> 1 ]
    /\ label_file = Some(<< "x" >>)
    /\ manifest_dir = { 1 }

SplitNext ==
    \/ Start
    \/ CheckBucket
    \/ Download
    \/ LoadLabels
    \/ FindManifest
    \/ BuildDatasets(0 .. MaxN)
    \/ Split
    \/ Setup
    \/ ForEpoch
    \/ TrainOneEpoch
    \/ LrStep
    \/ Evaluate
    \/ AppendStats
    \/ SaveModel
    \/ SavePlot
    \/ Publish

SplitSpec == SplitInit /\ [][SplitNext]_vars

----------------------------------------------------------------------------
(* Vocabulary of the properties *)

Range(s) == { s[i] : i \in 1 .. Len(s) }

BeforeSplit == pc \in { "start", "check_bucket", "download", "load_labels",
                        "find_manifest", "build_datasets", "split", "returned" }

SplitDone == ~BeforeSplit

DatasetLen == datasets[1].len

AfterLoop == pc \in { "save_model", "save_plot", "publish", "done" }

Uploads == SelectSeq(s3calls, LAMBDA c : c.op = "upload")

Downloads == SelectSeq(s3calls, LAMBDA c : c.op = "download")

\* The evaluations that returned, in order
Evaluations == SelectSeq(log, LAMBDA c : c.op = "evaluate" /\ c.stats # NoStats)

NonNegative(n) == IF n < 0 THEN 0 ELSE n

WeightsFile == [ dir |-> "model_state",
                 name |-> [ time |-> start_time, network |-> FLAGS.network ],
                 ext |-> "pt" ]

PlotFile == [ dir |-> "logs",
              name |-> [ time |-> start_time, network |-> FLAGS.network ],
              ext |-> "jpg" ]

----------------------------------------------------------------------------
(* C1: for every dataset size N and every permutation, the test subset has *)
(* exactly floor(0.2*N) indices, and the train and test index sets are     *)
(* disjoint and together hold all N indices.                               *)
C1_TestSizeIsFloorAndPartition ==
    SplitDone =>
        /\ Len(dataset_test) = DatasetLen \div 5
        /\ Range(dataset) \cap Range(dataset_test) = { }
        /\ Range(dataset) \cup Range(dataset_test) = 0 .. (DatasetLen - 1)
        /\ Len(dataset) + Len(dataset_test) = DatasetLen

(* C9 as stated: the first N - ceil(0.2*N) indices of the permutation are  *)
(* the training subset and the trailing ceil(0.2*N) the test subset.       *)
C9_CeilSplit ==
    SplitDone =>
        LET c == (DatasetLen + 4) \div 5
        IN  /\ dataset = SubSeq(indices, 1, DatasetLen - c)
            /\ dataset_test = SubSeq(indices, DatasetLen - c + 1, DatasetLen)

(* The statement of C9 on the sizes N >= 5 alone, where the slices cut the *)
(* permutation in two: it fails at N = 6, where the test subset is the     *)
(* trailing floor(1.2) = 1 index and not ceil(1.2) = 2.                    *)
C9_CeilSplitFromFive ==
    (SplitDone /\ DatasetLen >= 5) =>
        LET c == (DatasetLen + 4) \div 5
        IN  /\ dataset = SubSeq(indices, 1, DatasetLen - c)
            /\ dataset_test = SubSeq(indices, DatasetLen - c + 1, DatasetLen)

(* C9 amended: with k = floor(0.2*N), when k >= 1 the first N - k indices  *)
(* of the permutation are the training subset and the trailing k the test  *)
(* subset; when k = 0 the training subset is empty and the test subset is  *)
(* the whole permutation.                                                  *)
C9_FloorSplit ==
    SplitDone =>
        LET k == DatasetLen \div 5
        IN  /\ Len(indices) = DatasetLen
            /\ IF k >= 1
               THEN /\ dataset = SubSeq(indices, 1, DatasetLen - k)
                    /\ dataset_test = SubSeq(indices, DatasetLen - k + 1, DatasetLen)
               ELSE /\ dataset = << >>
                    /\ dataset_test = indices

C9_Witness ==
    /\ SplitDone
    /\ DatasetLen = 5
    /\ Len(dataset) = 4
    /\ dataset_test = << indices[5] >>
    /\ indices[1] # 0

(* C2 as stated: after the epoch loop each history has exactly num_epochs  *)
(* entries, entry k being the value of the evaluation of epoch k.          *)
C2_HistoryLenIsNumEpochs ==
    AfterLoop =>
        /\ Len(average_persision) = FLAGS.num_epochs
        /\ Len(average_recall) = FLAGS.num_epochs

(* C2 amended: the two histories always have equal length, entry k of each *)
(* is the value (position 0, position 8) of the evaluation of epoch k, and *)
(* after the epoch loop each has exactly max(num_epochs, 0) entries.       *)
C2_HistoryLenIsNonNegativeNumEpochs ==
    /\ Len(average_persision) = Len(average_recall)
    /\ Len(average_persision) <= Len(Evaluations)
    /\ \A i \in 1 .. Len(average_persision) :
          /\ Evaluations[i].epoch = i - 1
          /\ average_persision[i] = Evaluations[i].stats[0]
          /\ average_recall[i] = Evaluations[i].stats[8]
    /\ AfterLoop =>
          /\ Len(average_persision) = NonNegative(FLAGS.num_epochs)
          /\ Len(Evaluations) = NonNegative(FLAGS.num_epochs)

C2_Witness ==
    /\ pc = "done"
    /\ FLAGS.num_epochs = 2
    /\ Len(average_persision) = 2
    /\ average_persision[1] # average_persision[2]
    /\ average_recall[2] = Evaluations[2].stats[8]

(* C3: with the label file absent, or present with zero lines, main        *)
(* returns before a dataset object is constructed; the run has no training *)
(* step, no weights file, no plot file, no output directory and no upload, *)
(* whether or not remote mode was on.                                      *)
C3_LabelAbort ==
    (label_file = None \/ label_file = << << >> >>) =>
        /\ pc \in { "start", "check_bucket", "download", "load_labels", "returned" }
        /\ datasets = << >>
        /\ log = << >>
        /\ files = { }
        /\ dirs = { }
        /\ plotted = << >>
        /\ Uploads = << >>

C3_Witness ==
    /\ label_file = << << >> >>
    /\ pc = "returned"
    /\ use_s3
    /\ Len(Downloads) = 3
    /\ datasets = << >>

(* C4 as stated: with the bucket flag unset no remote operation is ever    *)
(* invoked, and the run, once over, has produced the weights file and the  *)
(* plot file named from the run name.                                      *)
C4_NoBucketAlwaysProducesFiles ==
    FLAGS.s3_bucket_name = None =>
        /\ s3calls = << >>
        /\ pc \in { "done", "returned", "failed" } => files = { WeightsFile, PlotFile }

(* C4 amended: with the bucket flag unset no remote operation is ever      *)
(* invoked at any point of the run, and every such run that reaches the    *)
(* end of main (valid label file, no exception) has produced the weights   *)
(* file and the plot file, both named '<start_timestamp>-<network>'.       *)
C4_NoBucketNoRemoteAndFilesAtEnd ==
    FLAGS.s3_bucket_name = None =>
        /\ s3calls = << >>
        /\ ~use_s3
        /\ pc = "done" => files = { WeightsFile, PlotFile }
        /\ pc = "publish" => files = { WeightsFile, PlotFile }

C4_Witness ==
    /\ FLAGS.s3_bucket_name = None
    /\ pc = "done"
    /\ s3calls = << >>
    /\ Cardinality(files) = 2
    /\ WeightsFile \in files
    /\ PlotFile \in files
    /\ start_time = 2
    /\ FLAGS.network = "net_b"

(* C5: when a bucket is configured and the existence check fails, remote   *)
(* mode is off for the rest of the run: the check is the only remote call  *)
(* ever made (no download, no upload), and the run goes on through label   *)
(* loading, training and the writing of the two local files.               *)
BucketCheckFailed ==
    /\ FLAGS.s3_bucket_name # None
    /\ Len(stdout) >= 1
    /\ stdout[1] = "bucket_missing"

C5_FailedCheckStaysLocal ==
    BucketCheckFailed =>
        /\ ~use_s3
        /\ s3calls = << [ op |-> "bucket_exists", prefix |-> "", files |-> << >> ] >>
        /\ pc # "check_bucket"
        /\ pc = "done" => files = { WeightsFile, PlotFile }

C5_Witness ==
    /\ BucketCheckFailed
    /\ pc = "done"
    /\ Len(Evaluations) >= 1
    /\ labels # << >>
    /\ files = { WeightsFile, PlotFile }
    /\ Len(s3calls) = 1

ManifestMissing ==
    /\ pc \notin { "start", "check_bucket", "download", "load_labels",
                   "find_manifest", "returned" }
    /\ newest_manifest_file = None

C7_MissingManifestGoesOn ==
    /\ ManifestMissing =>
          /\ stdout[Len(stdout)] = "no_manifest" \/ pc # "build_datasets"
          /\ Cardinality({ i \in 1 .. Len(stdout) : stdout[i] = "no_manifest" }) = 1
          /\ pc # "build_datasets" =>
                /\ Len(datasets) = 2
                /\ datasets[1].manifest = None
                /\ datasets[2].manifest = None
    /\ (\E i \in 1 .. Len(stdout) : stdout[i] = "no_manifest") => pc # "returned"

C7_Witness ==
    /\ ManifestMissing
    /\ pc = "done"
    /\ Len(datasets) = 2
    /\ datasets[1].manifest = None
    /\ datasets[2].manifest = None
    /\ manifest_dir = { }

(* C8: the loop visits the epochs 0 .. num_epochs-1 in increasing order,   *)
(* each once, then leaves; within an epoch the steps are training pass,    *)
(* schedule step, evaluation, append, in that order, and the schedule has  *)
(* been stepped exactly k+1 times when the metrics of epoch k are appended.*)
LoopOps == << "train", "lr_step", "evaluate", "append" >>

Scheduled(i) == [ op |-> LoopOps[((i - 1) % 4) + 1], epoch |-> (i - 1) \div 4 ]

C8_EpochOrder ==
    /\ \A i \in 1 .. Len(log) :
          /\ log[i].op = Scheduled(i).op
          /\ log[i].epoch = Scheduled(i).epoch
          /\ log[i].epoch < FLAGS.num_epochs
    /\ lr_steps = Cardinality({ i \in 1 .. Len(log) : log[i].op = "lr_step" })
    /\ pc = "append" => lr_steps = epoch + 1
    /\ (log # << >> /\ log[Len(log)].op = "append") => lr_steps = log[Len(log)].epoch + 1
    /\ AfterLoop => Len(log) = 4 * NonNegative(FLAGS.num_epochs)

C8_Witness ==
    /\ pc = "done"
    /\ FLAGS.num_epochs = 2
    /\ Len(log) = 8
    /\ lr_steps = 2

(* C10: an exception raised by the training pass or the evaluation pass of *)
(* epoch k is not caught or retried: the run ends failed, no later epoch   *)
(* runs, each history holds exactly k entries, and the run has no weights  *)
(* file, no plot file and no upload.                                       *)
C10_ExceptionAborts ==
    /\ pc = "failed" <=> exception # None
    /\ exception # None =>
          LET raised == exception[1]
          IN  /\ raised.op \in { "train", "evaluate" }
              /\ epoch = raised.epoch
              /\ log[Len(log)] = raised
              /\ \A i \in 1 .. (Len(log) - 1) :
                    ~(log[i].op = raised.op /\ log[i].epoch = raised.epoch)
              /\ \A i \in 1 .. Len(log) : log[i].epoch <= raised.epoch
              /\ Len(average_persision) = raised.epoch
              /\ Len(average_recall) = raised.epoch
              /\ files = { }
              /\ plotted = << >>
              /\ Uploads = << >>

C10_Witness ==
    /\ pc = "failed"
    /\ exception # None
    /\ exception[1].op = "evaluate"
    /\ exception[1].epoch = 1
    /\ Len(average_recall) = 1
    /\ use_s3

====
